---- MODULE Spec2Model ----
(***************************************************************************)
(* Model of the resume-screening pipeline: the LangGraph workflow built by *)
(* build_graph (main.py) over the six node functions, together with the    *)
(* collaborators they call (resume_parser.py, jd_parser.py, matcher.py,    *)
(* database.py, email_sender.py).                                          *)
(*                                                                         *)
(* Conventions.  An Optional[T] value is None (the empty tuple) or         *)
(* Some(v) (a one-element tuple).  Text that the code strips, lower-cases  *)
(* or tests with isspace (titles, file names, extracted text) is a         *)
(* sequence of one-character strings; other text is a TLA+ string.  A      *)
(* score is an integer number of hundredths (64.99 is 6499).  A key of a   *)
(* JSON object returned by the language model is FMissing (key absent),    *)
(* FNull (key present, value null) or FVal(v).                             *)
(***************************************************************************)
EXTENDS Integers, Sequences, FiniteSets, TLC

None == <<>>
Some(x) == <<x>>

FMissing == <<>>
FNull == <<None>>
FVal(v) == <<Some(v)>>

\* ---------------------------------------------------------------- text ----

\* str.lower() on one character.
LowerChar(c) ==
    CASE c = "D" -> "d"
      [] c = "E" -> "e"
      [] c = "V" -> "v"
      [] c = "Q" -> "q"
      [] c = "A" -> "a"
      [] c = "P" -> "p"
      [] c = "F" -> "f"
      [] c = "T" -> "t"
      [] c = "X" -> "x"
      [] OTHER -> c

\* str.lower()
Lower(s) == [i \in 1..Len(s) |-> LowerChar(s[i])]

IsSpaceChar(c) == c \in {" ", "\n"}

RECURSIVE LStrip(_)
LStrip(s) ==
    IF s # <<>> /\ IsSpaceChar(Head(s)) THEN LStrip(Tail(s)) ELSE s

RECURSIVE RStrip(_)
RStrip(s) ==
    IF s # <<>> /\ IsSpaceChar(s[Len(s)])
    THEN RStrip(SubSeq(s, 1, Len(s) - 1))
    ELSE s

\* str.strip()
Strip(s) == RStrip(LStrip(s))

\* str.isspace(): non-empty and every character is whitespace.
IsSpace(s) == s # <<>> /\ \A i \in 1..Len(s) : IsSpaceChar(s[i])

\* str.endswith(suffix)
EndsWith(s, suffix) ==
    /\ Len(s) >= Len(suffix)
    /\ SubSeq(s, Len(s) - Len(suffix) + 1, Len(s)) = suffix

\* ------------------------------------------------------------- bounds ----

\* How far (in hundredths) below 0 and above 100 the scoring model's raw
\* score may lie.
BelowRange == 500
AboveRange == 100

\* Rows already in the applications table when the run starts.
MaxOldRows == 1

\* ---------------------------------------------------- program constants ---

\* 0.0 and 100.0, the ends of the score range (matcher.py), in hundredths.
ScoreLow == 0
ScoreHigh == 10000
\* 65.0, the qualification threshold (email_sender.py), in hundredths.
QualifyThreshold == 6500

\* ------------------------------------------------ language-model replies ---

\* What requests.post and the decoding of its reply can come to in the three
\* call_deepseek_* functions: the request times out, the transport fails, the reply has no 'choices', or the reply carries a message
\* whose content is JSON text ("plain"), JSON text inside a ```json fence
\* ("markdown"), a fence around text that is not JSON ("badfence"), or text
\* that is not JSON and has no fence ("garbage").
HttpFailures == {"timeout", "request_error", "no_choices"}
ContentWraps == {"plain", "markdown", "badfence", "garbage"}

\* JSON text: the value it denotes and whether it is written compactly; the
\* text of an empty object is '{}' only when compact.
JsonText(v, c) == [value |-> v, compact |-> c]

\* A model reply: kind is an HttpFailures member or "content".
Reply(k, w, t) == [kind |-> k, wrap |-> w, text |-> t]

\* ---------------------------------------------------------- models.py ----

\* The addresses EmailStr accepts.
ValidEmails == {"ann@x.org"}

ResumeNames == {FMissing, FVal("Ann")}
ResumeEmails == {FMissing, FNull, FVal("ann@x.org"), FVal("not-an-email")}

\* JSON values offered to ResumeInfo(**parsed_data): an object with the keys
\* candidate_name and email (schema_ok: the remaining keys have the types the
\* schema asks for), or a value that is not an object.
ResumeDocs ==
    [shape : {"object"}, candidate_name : ResumeNames,
     email : ResumeEmails, schema_ok : BOOLEAN]
    \cup
    {[shape |-> "array", candidate_name |-> FMissing,
      email |-> FMissing, schema_ok |-> TRUE]}

EmptyResumeDoc ==
    [shape |-> "object", candidate_name |-> FMissing,
     email |-> FMissing, schema_ok |-> TRUE]

\* An Optional[str] attribute of a pydantic model built from a JSON key.
OptAttr(f) == IF f = FMissing THEN None ELSE f[1]

\* ResumeInfo(**doc): the record built, or None when construction raises
\* (not a mapping, an address EmailStr rejects, a key of the wrong type).
ResumeInfo(doc) ==
    IF doc.shape # "object" THEN None
    ELSE IF ~doc.schema_ok THEN None
    ELSE IF OptAttr(doc.email) # None /\ OptAttr(doc.email)[1] \notin ValidEmails
         THEN None
    ELSE Some([candidate_name |-> OptAttr(doc.candidate_name),
               email |-> OptAttr(doc.email)])

\* ------------------------------------------------------ resume_parser.py ---

ResumeReplies ==
    {Reply(k, "plain", JsonText(EmptyResumeDoc, TRUE)) : k \in HttpFailures}
    \cup
    {Reply("content", w, JsonText(d, TRUE)) :
        w \in {"plain", "markdown"}, d \in ResumeDocs}
    \cup
    {Reply("content", w, JsonText(EmptyResumeDoc, c)) :
        w \in ContentWraps, c \in BOOLEAN}

\* call_deepseek_for_resume_parsing: the JSON text returned for a reply.
call_deepseek_for_resume_parsing(api_key, reply) ==
    IF ~api_key THEN JsonText(EmptyResumeDoc, TRUE)
    ELSE IF reply.kind # "content" THEN JsonText(EmptyResumeDoc, TRUE)
    ELSE IF reply.wrap \in {"plain", "markdown"} THEN reply.text
    ELSE JsonText(EmptyResumeDoc, TRUE)

Pdf == <<".", "p", "d", "f">>
Docx == <<".", "d", "o", "c", "x">>
Txt == <<".", "t", "x", "t">>

\* What the PDF / DOCX reader makes of the bytes: None when it raises, else
\* the extracted text.
ExtractedTexts == {None, Some(<<>>), Some(<<" ">>), Some(<<"c", "v">>)}

\* The result of a collaborator that either returns a value or raises:
\* raised, the exception text, the value, and whether the model was called.
Returned(v, c) == [raised |-> FALSE, msg |-> "", value |-> Some(v), called |-> c]
Raised(m, c) == [raised |-> TRUE, msg |-> m, value |-> None, called |-> c]

\* parse_resume_file(BytesIO(content), filename), given what the document
\* reader extracts and what the model replies.
parse_resume_file(content, filename, extracted, api_key, reply) ==
    LET name == Lower(filename)
        known == EndsWith(name, Pdf) \/ EndsWith(name, Docx) \/ EndsWith(name, Txt)
        text == IF EndsWith(name, Pdf) \/ EndsWith(name, Docx)
                THEN extracted
                ELSE Some(content)
        out == call_deepseek_for_resume_parsing(api_key, reply)
    IN  IF ~known THEN Raised("Failed to parse resume: Unsupported file type", FALSE)
        ELSE IF text = None
             THEN Raised("Failed to parse resume: reader error", FALSE)
        ELSE IF text[1] = <<>> \/ IsSpace(text[1])
             THEN Raised("Failed to parse resume: Could not extract text from file or file is empty.", FALSE)
        ELSE IF out = JsonText(EmptyResumeDoc, TRUE)
             THEN Raised("Failed to parse resume: LLM failed to parse resume, returned empty data.", TRUE)
        ELSE IF ResumeInfo(out.value) = None
             THEN Raised("Failed to parse resume: invalid resume data", TRUE)
        ELSE Returned(ResumeInfo(out.value)[1], TRUE)

\* ---------------------------------------------------------- jd_parser.py ---

\* The job-description CSV as pandas reads it: the columns present and the
\* rows in file order.  Company and location cells are None when empty (NaN).
Row(t, d, c, l) == [title |-> t, description |-> d, company |-> c, location |-> l]

AllColumns == {"Job Title", "Job Description", "Company", "Location"}

JobRows ==
    << Row(<<" ", "D", "e", "v">>, <<"j", "d">>, Some("Acme"), None),
       Row(<<"q", "a">>, <<" ">>, None, Some("Pune")),
       Row(<<"d", "e", "v">>, <<"x">>, Some("Other"), Some("Oslo")),
       Row(<<"o", "p", "\n", "s">>, <<"o">>, None, None) >>

DataFrames ==
    { [columns |-> AllColumns, rows |-> JobRows],
      [columns |-> {"Job Title", "Job Description"}, rows |-> JobRows],
      [columns |-> AllColumns, rows |-> <<>>],
      [columns |-> {"Job Title", "Company"}, rows |-> JobRows] }

\* The file at JOB_DATA_CSV: None when it does not exist.
CsvFiles == {None} \cup {Some(df) : df \in DataFrames}

JdCompanies == {FMissing, FNull, FVal(""), FVal("Globex")}
JdLocations == {FMissing, FVal("Rome")}
JdTitles == {FMissing, FVal(<<"c", "t", "o">>)}

\* JSON values offered to JobDescriptionInfo(**parsed_data).
JdDocs ==
    [shape : {"object"}, job_title : JdTitles, company : JdCompanies,
     location : JdLocations, schema_ok : BOOLEAN]
    \cup
    {[shape |-> "array", job_title |-> FMissing, company |-> FMissing,
      location |-> FMissing, schema_ok |-> TRUE]}

EmptyJdDoc ==
    [shape |-> "object", job_title |-> FMissing, company |-> FMissing,
     location |-> FMissing, schema_ok |-> TRUE]

JdReplies ==
    {Reply(k, "plain", JsonText(EmptyJdDoc, TRUE)) : k \in HttpFailures}
    \cup
    {Reply("content", w, JsonText(d, TRUE)) :
        w \in {"plain", "markdown"}, d \in JdDocs}
    \cup
    {Reply("content", w, JsonText(EmptyJdDoc, c)) :
        w \in ContentWraps, c \in BOOLEAN}

\* call_deepseek_for_jd_parsing: the JSON text returned for a reply.
call_deepseek_for_jd_parsing(api_key, reply) ==
    IF ~api_key THEN JsonText(EmptyJdDoc, TRUE)
    ELSE IF reply.kind # "content" THEN JsonText(EmptyJdDoc, TRUE)
    ELSE IF reply.wrap \in {"plain", "markdown"} THEN reply.text
    ELSE JsonText(EmptyJdDoc, TRUE)

\* MatchingRows comparing the titles as they are written.
MatchingRows_Exact(df, title) ==
    SelectSeq(df.rows, LAMBDA r : r.title = title)

\* MatchingRows with the title filter dropped: every row is taken.
MatchingRows_All(df, title) == df.rows

\* df_jobs[df_jobs['Job Title'].str.strip().str.lower() == title.strip().lower()]:
\* the matching rows, in file order.
MatchingRows(df, title) ==
    SelectSeq(df.rows, LAMBDA r : Lower(Strip(r.title)) = Lower(Strip(title)))

\* The overlay test reduced to 'key' not in parsed_data: a key the model
\* gave as null or as empty text counts as supplied.
KeyUnset_MissingOnly(f) == f = FMissing

\* 'key' not in parsed_data or not parsed_data['key']
KeyUnset(f) == f = FMissing \/ f[1] = None \/ f[1][1] = ""

\* JobDescriptionInfo built by a schema that trims its text fields.
JobDescriptionInfo_Trimmed(doc) ==
    IF doc.shape # "object" \/ ~doc.schema_ok \/ OptAttr(doc.job_title) = None
    THEN None
    ELSE Some([job_title |-> Strip(doc.job_title[1][1]),
               company |-> OptAttr(doc.company),
               location |-> OptAttr(doc.location)])

\* JobDescriptionInfo(**doc): None when construction raises.
JobDescriptionInfo(doc) ==
    IF doc.shape # "object" \/ ~doc.schema_ok \/ OptAttr(doc.job_title) = None
    THEN None
    ELSE Some([job_title |-> doc.job_title[1][1],
               company |-> OptAttr(doc.company),
               location |-> OptAttr(doc.location)])

\* parse_job_description(selected_job_title, df_jobs), given the model's reply.
parse_job_description(selected_job_title, df_jobs, api_key, reply) ==
    LET job_row == MatchingRows(df_jobs, selected_job_title)
        jd_text == job_row[1].description
        company == IF "Company" \in df_jobs.columns THEN job_row[1].company ELSE None
        location == IF "Location" \in df_jobs.columns THEN job_row[1].location ELSE None
        out == call_deepseek_for_jd_parsing(api_key, reply)
        titled == [out.value EXCEPT !.job_title = FVal(selected_job_title)]
        withCompany == IF company # None /\ KeyUnset(titled.company)
                       THEN [titled EXCEPT !.company = FVal(company[1])]
                       ELSE titled
        parsed_data == IF location # None /\ KeyUnset(withCompany.location)
                       THEN [withCompany EXCEPT !.location = FVal(location[1])]
                       ELSE withCompany
    IN  IF job_row = <<>>
        THEN Raised("Failed to parse job description: Job title not found in the provided CSV.", FALSE)
        ELSE IF jd_text = <<>> \/ IsSpace(jd_text)
             THEN Raised("Failed to parse job description: Job description text is empty.", FALSE)
        ELSE IF out = JsonText(EmptyJdDoc, TRUE)
             THEN Raised("Failed to parse job description: LLM failed to parse job description, returned empty data.", TRUE)
        ELSE IF out.value.shape # "object"
             THEN Raised("Failed to parse job description: invalid job data", TRUE)
        ELSE IF JobDescriptionInfo(parsed_data) = None
             THEN Raised("Failed to parse job description: invalid job data", TRUE)
        ELSE Returned(JobDescriptionInfo(parsed_data)[1], TRUE)

\* ------------------------------------------------------------ matcher.py ---

MinRawScore == ScoreLow - BelowRange
MaxRawScore == ScoreHigh + AboveRange
RawScores == {MinRawScore, 6499, 6500, MaxRawScore}

\* The "match_score" key of the model's JSON: absent, null, a number, or text
\* that float() rejects.
ScoreKeys ==
    {[tag |-> t, num |-> 0] : t \in {"missing", "null", "text"}}
    \cup
    {[tag |-> "number", num |-> n] : n \in RawScores}

FeedbackKeys == {FMissing, FNull, FVal(""), FVal("Good fit.")}

MatchDocs ==
    [shape : {"object"}, match_score : ScoreKeys, feedback : FeedbackKeys]
    \cup
    {[shape |-> "array", match_score |-> [tag |-> "missing", num |-> 0],
      feedback |-> FMissing]}

EmptyMatchDoc ==
    [shape |-> "object", match_score |-> [tag |-> "missing", num |-> 0],
     feedback |-> FMissing]

\* "json_error": resume_info.json() / jd_info.json() raised before the call.
MatchReplies ==
    {Reply(k, "plain", JsonText(EmptyMatchDoc, TRUE)) :
        k \in HttpFailures \cup {"json_error"}}
    \cup
    {Reply("content", "plain", JsonText(d, TRUE)) : d \in MatchDocs}
    \cup
    {Reply("content", w, JsonText(d, TRUE)) :
        w \in ContentWraps,
        d \in {EmptyMatchDoc,
               [shape |-> "object",
                match_score |-> [tag |-> "number", num |-> MaxRawScore],
                feedback |-> FVal("Good fit.")]}}

Min(a, b) == IF a <= b THEN a ELSE b
Max(a, b) == IF a >= b THEN a ELSE b

\* ClampScore without the clamp.
ClampScore_Raw(score) == score

\* if not 0 <= score <= 100: score = max(0.0, min(100.0, score))
ClampScore(score) ==
    IF ~(ScoreLow <= score /\ score <= ScoreHigh)
    THEN Max(ScoreLow, Min(ScoreHigh, score))
    ELSE score

\* default_response with a score below the range marking the failure.
default_response_Negative == <<0 - 100, Some("Error: Could not generate matching results.")>>

default_response == <<0, Some("Error: Could not generate matching results.")>>

\* call_deepseek_for_matching: the (score, feedback) pair returned.
call_deepseek_for_matching(api_key, reply) ==
    LET doc == reply.text.value
        score == IF doc.match_score.tag = "missing" THEN 0 ELSE doc.match_score.num
        missing == IF reply.wrap = "plain"
                   THEN "Feedback could not be generated."
                   ELSE "Feedback could not be generated (extracted)."
        feedback_text == IF doc.feedback = FMissing THEN Some(missing)
                         ELSE doc.feedback[1]
    IN  IF ~api_key THEN default_response
        ELSE IF reply.kind # "content" THEN default_response
        ELSE IF reply.wrap \notin {"plain", "markdown"} THEN default_response
        ELSE IF doc.shape # "object" THEN default_response
        ELSE IF doc.match_score.tag \in {"null", "text"} THEN default_response
        ELSE <<ClampScore(score), feedback_text>>

\* The "match_score" key of the JSON object the code parsed out of the reply;
\* None when the call failed or the content held no JSON object.
ParsedScoreKey(api_key, reply) ==
    IF api_key /\ reply.kind = "content" /\ reply.wrap \in {"plain", "markdown"}
       /\ reply.text.value.shape = "object"
    THEN Some(reply.text.value.match_score)
    ELSE None

\* The model call failed: no key, no usable reply, content that is not a JSON
\* object, a score that float() rejects, or the records could not be dumped.
ScoringFailed(api_key, reply) ==
    \/ ParsedScoreKey(api_key, reply) = None
    \/ ParsedScoreKey(api_key, reply)[1].tag \in {"null", "text"}

error_response == <<0, Some("An error occurred during the matching process.")>>

\* calculate_match_and_feedback(resume_info, jd_info)
calculate_match_and_feedback(api_key, reply) ==
    IF reply.kind = "json_error" THEN error_response
    ELSE call_deepseek_for_matching(api_key, reply)

\* ----------------------------------------------------------- database.py ---

\* The SQLite file: whether the applications table exists, and its rows.
\* commit: "ok" (the insert commits), "sqlite_error" (sqlite3.Error), or
\* "error" (an exception that is not a sqlite3.Error).
CommitOutcomes == {"ok", "sqlite_error", "error"}

\* setup_database(): CREATE TABLE IF NOT EXISTS; a sqlite3.Error is logged
\* and swallowed.
setup_database(d, ok) ==
    IF ok THEN [d EXCEPT !.table = TRUE] ELSE d

\* save_match_results on a table that refuses a second row equal to one it
\* holds (a UNIQUE constraint): the insert fails with sqlite3.IntegrityError.
save_match_results_Unique(d, resume_info, jd_info, match_score, feedback, commit) ==
    LET row == [candidate_name |-> resume_info.candidate_name,
                candidate_email |-> resume_info.email,
                applied_job_title |-> jd_info.job_title,
                match_score |-> match_score,
                feedback |-> feedback]
    IN  IF commit = "error" THEN [result |-> "raise", db |-> d]
        ELSE IF ~d.table \/ commit = "sqlite_error"
             THEN [result |-> "false", db |-> d]
        ELSE IF \E k \in 1..Len(d.rows) : d.rows[k] = row
             THEN [result |-> "false", db |-> d]
        ELSE [result |-> "true", db |-> [d EXCEPT !.rows = Append(@, row)]]

\* save_match_results written as INSERT OR REPLACE keyed on the candidate and
\* the job: a row for the same application takes the place of the old one.
save_match_results_Replace(d, resume_info, jd_info, match_score, feedback, commit) ==
    LET row == [candidate_name |-> resume_info.candidate_name,
                candidate_email |-> resume_info.email,
                applied_job_title |-> jd_info.job_title,
                match_score |-> match_score,
                feedback |-> feedback]
        Same(k) == /\ d.rows[k].candidate_email = row.candidate_email
                   /\ d.rows[k].applied_job_title = row.applied_job_title
    IN  IF commit = "error" THEN [result |-> "raise", db |-> d]
        ELSE IF ~d.table \/ commit = "sqlite_error"
             THEN [result |-> "false", db |-> d]
        ELSE IF \E k \in 1..Len(d.rows) : Same(k)
             THEN [result |-> "true",
                   db |-> [d EXCEPT !.rows =
                             [k \in 1..Len(d.rows) |->
                                 IF Same(k) THEN row ELSE d.rows[k]]]]
        ELSE [result |-> "true", db |-> [d EXCEPT !.rows = Append(@, row)]]

\* save_match_results: result is "true", "false" or "raise"; db is the
\* database afterwards.
save_match_results(d, resume_info, jd_info, match_score, feedback, commit) ==
    LET row == [candidate_name |-> resume_info.candidate_name,
                candidate_email |-> resume_info.email,
                applied_job_title |-> jd_info.job_title,
                match_score |-> match_score,
                feedback |-> feedback]
    IN  IF commit = "error" THEN [result |-> "raise", db |-> d]
        ELSE IF ~d.table \/ commit = "sqlite_error"
             THEN [result |-> "false", db |-> d]
        ELSE [result |-> "true", db |-> [d EXCEPT !.rows = Append(@, row)]]

\* ------------------------------------------------------- email_sender.py ---

\* What the SMTP exchange does: the message is accepted, one of the four
\* exception classes the function catches is raised, or the server never
\* answers (smtplib.SMTP is given no timeout, so the call waits for ever).
SmtpOutcomes ==
    {"sent", "auth_error", "disconnected", "smtp_error", "error", "no_answer"}

\* EmailMessage refuses a header value holding a line break.
HasLineBreak(s) == \E i \in 1..Len(s) : s[i] = "\n"

\* send_application_email with a strict comparison against the threshold.
send_application_email_Strict(creds, to_email, candidate_name, job_title, match_score, feedback, smtp) ==
    LET is_qualified == match_score > QualifyThreshold
        msg == [to |-> to_email[1],
                subject |-> IF is_qualified THEN "Congratulations" ELSE "Update",
                job_title |-> job_title,
                candidate_name |-> candidate_name,
                match_score |-> match_score,
                feedback |-> feedback]
    IN  IF ~creds THEN [result |-> "false", mail |-> None, smtp |-> FALSE]
        ELSE IF to_email = None \/ to_email = Some("")
             THEN [result |-> "false", mail |-> None, smtp |-> FALSE]
        ELSE IF HasLineBreak(job_title)
             THEN [result |-> "raise", mail |-> None, smtp |-> FALSE]
        ELSE IF smtp = "no_answer"
             THEN [result |-> "blocked", mail |-> None, smtp |-> TRUE]
        ELSE IF smtp = "sent"
             THEN [result |-> "true", mail |-> Some(msg), smtp |-> TRUE]
        ELSE [result |-> "false", mail |-> None, smtp |-> TRUE]

\* send_application_email without the test of the credentials: the message
\* is built and the SMTP exchange attempted whether or not they are set.
send_application_email_NoCredsCheck(creds, to_email, candidate_name, job_title, match_score, feedback, smtp) ==
    LET is_qualified == match_score >= QualifyThreshold
        msg == [to |-> to_email[1],
                subject |-> IF is_qualified THEN "Congratulations" ELSE "Update",
                job_title |-> job_title,
                candidate_name |-> candidate_name,
                match_score |-> match_score,
                feedback |-> feedback]
    IN  IF to_email = None \/ to_email = Some("")
        THEN [result |-> "false", mail |-> None, smtp |-> FALSE]
        ELSE IF HasLineBreak(job_title)
             THEN [result |-> "raise", mail |-> None, smtp |-> FALSE]
        ELSE IF smtp = "no_answer"
             THEN [result |-> "blocked", mail |-> None, smtp |-> TRUE]
        ELSE IF smtp = "sent"
             THEN [result |-> "true", mail |-> Some(msg), smtp |-> TRUE]
        ELSE [result |-> "false", mail |-> None, smtp |-> TRUE]

\* send_application_email without the test of the address: a message with
\* an empty To header is handed to the SMTP server.
send_application_email_NoAddressCheck(creds, to_email, candidate_name, job_title, match_score, feedback, smtp) ==
    LET is_qualified == match_score >= QualifyThreshold
        msg == [to |-> IF to_email = None THEN "" ELSE to_email[1],
                subject |-> IF is_qualified THEN "Congratulations" ELSE "Update",
                job_title |-> job_title,
                candidate_name |-> candidate_name,
                match_score |-> match_score,
                feedback |-> feedback]
    IN  IF ~creds THEN [result |-> "false", mail |-> None, smtp |-> FALSE]
        ELSE IF HasLineBreak(job_title)
             THEN [result |-> "raise", mail |-> None, smtp |-> FALSE]
        ELSE IF smtp = "no_answer"
             THEN [result |-> "blocked", mail |-> None, smtp |-> TRUE]
        ELSE IF smtp = "sent"
             THEN [result |-> "true", mail |-> Some(msg), smtp |-> TRUE]
        ELSE [result |-> "false", mail |-> None, smtp |-> TRUE]

\* send_application_email: result is "true", "false", "raise", or "blocked"
\* when the call never returns; mail is the message handed to the SMTP
\* server (None when none was).
send_application_email(creds, to_email, candidate_name, job_title, match_score, feedback, smtp) ==
    LET is_qualified == match_score >= QualifyThreshold
        msg == [to |-> to_email[1],
                subject |-> IF is_qualified THEN "Congratulations" ELSE "Update",
                job_title |-> job_title,
                candidate_name |-> candidate_name,
                match_score |-> match_score,
                feedback |-> feedback]
    IN  IF ~creds THEN [result |-> "false", mail |-> None, smtp |-> FALSE]
        ELSE IF to_email = None \/ to_email = Some("")
             THEN [result |-> "false", mail |-> None, smtp |-> FALSE]
        ELSE IF HasLineBreak(job_title)
             THEN [result |-> "raise", mail |-> None, smtp |-> FALSE]
        ELSE IF smtp = "no_answer"
             THEN [result |-> "blocked", mail |-> None, smtp |-> TRUE]
        ELSE IF smtp = "sent"
             THEN [result |-> "true", mail |-> Some(msg), smtp |-> TRUE]
        ELSE [result |-> "false", mail |-> None, smtp |-> TRUE]

\* --------------------------------------------------------------- main.py ---

VARIABLES
    pc,       \* the node the graph runs next, or "END"
    state,    \* the AppState flowing through the graph
    env,      \* process environment: the CSV file, the API key, mail credentials
    db,       \* the SQLite database behind database.py
    outbox,   \* messages accepted by the SMTP server, in order
    trace,    \* the nodes executed so far, in order
    calls,    \* the collaborator functions invoked so far, in order
    obs       \* what the collaborators were given and what they answered

vars == <<pc, state, env, db, outbox, trace, calls, obs>>

\* Python truthiness of an Optional value: of a sequence (file bytes, file
\* name, title, error text) and of a string (feedback).
Truthy(o) == o # None /\ o[1] # <<>>
TruthyStr(o) == o # None /\ o[1] # ""

\* state.get('error_message') is truthy
HasError(s) == Truthy(s.error_message)

\* The initial_state dictionary handed to graph.invoke.
initial_state(file_bytes, filename, selected_job) ==
    [uploaded_file_content |-> file_bytes,
     uploaded_filename |-> filename,
     selected_job_title |-> selected_job,
     job_descriptions_df |-> None,
     parsed_resume |-> None,
     parsed_jd |-> None,
     match_score |-> None,
     feedback |-> None,
     db_save_status |-> FALSE,
     email_sent_status |-> FALSE,
     error_message |-> None]

\* An error text: the node's prefix ("" when the node adds none) and the
\* message.
ErrorText(prefix, e) == Some(<<prefix, e>>)

\* load_and_validate_input that stores the selected title trimmed once the
\* inputs are validated.
load_and_validate_input_Trimmed(s, csv) ==
    IF csv = None
    THEN [s EXCEPT !.error_message =
            ErrorText("Initialization Error", "Job descriptions file not found")]
    ELSE IF ~({"Job Title", "Job Description"} \subseteq csv[1].columns)
    THEN [s EXCEPT !.error_message =
            ErrorText("Initialization Error", "CSV must contain 'Job Title' and 'Job Description' columns.")]
    ELSE IF ~Truthy(s.uploaded_file_content) \/ ~Truthy(s.uploaded_filename)
    THEN [s EXCEPT !.job_descriptions_df = csv,
                   !.error_message = ErrorText("Initialization Error", "Resume file not provided.")]
    ELSE IF ~Truthy(s.selected_job_title)
    THEN [s EXCEPT !.job_descriptions_df = csv,
                   !.error_message = ErrorText("Initialization Error", "Job title not selected.")]
    ELSE [s EXCEPT !.job_descriptions_df = csv, !.error_message = None,
                   !.selected_job_title = Some(Strip(@[1]))]

load_and_validate_input(s, csv) ==
    IF csv = None
    THEN [s EXCEPT !.error_message =
            ErrorText("Initialization Error", "Job descriptions file not found")]
    ELSE IF ~({"Job Title", "Job Description"} \subseteq csv[1].columns)
    THEN [s EXCEPT !.error_message =
            ErrorText("Initialization Error", "CSV must contain 'Job Title' and 'Job Description' columns.")]
    ELSE IF ~Truthy(s.uploaded_file_content) \/ ~Truthy(s.uploaded_filename)
    THEN [s EXCEPT !.job_descriptions_df = csv,
                   !.error_message = ErrorText("Initialization Error", "Resume file not provided.")]
    ELSE IF ~Truthy(s.selected_job_title)
    THEN [s EXCEPT !.job_descriptions_df = csv,
                   !.error_message = ErrorText("Initialization Error", "Job title not selected.")]
    ELSE [s EXCEPT !.job_descriptions_df = csv, !.error_message = None]

\* process_resume whose except branch forgets to record the error.
process_resume_NoError(s, r) ==
    IF HasError(s) THEN s
    ELSE IF r.raised
    THEN [s EXCEPT !.parsed_resume = None]
    ELSE [s EXCEPT !.parsed_resume = r.value, !.error_message = None]

process_resume(s, r) ==
    IF HasError(s) THEN s
    ELSE IF r.raised
    THEN [s EXCEPT !.error_message = ErrorText("Resume Parsing Failed", r.msg),
                   !.parsed_resume = None]
    ELSE [s EXCEPT !.parsed_resume = r.value, !.error_message = None]

process_job_description(s, r) ==
    IF HasError(s) THEN s
    ELSE IF r.raised
    THEN [s EXCEPT !.error_message = ErrorText("Job Description Parsing Failed", r.msg),
                   !.parsed_jd = None]
    ELSE [s EXCEPT !.parsed_jd = r.value, !.error_message = None]

\* perform_matching whose guard records its own message whether or not an
\* error is already recorded.
perform_matching_Overwrite(s, pair) ==
    IF HasError(s) \/ s.parsed_resume = None \/ s.parsed_jd = None
    THEN [s EXCEPT !.error_message =
            ErrorText("", "Cannot perform matching due to missing parsed resume or JD.")]
    ELSE [s EXCEPT !.match_score = Some(pair[1]),
                   !.feedback = pair[2],
                   !.error_message = None]

\* perform_matching without its guard: the pair is stored and the error
\* cleared whatever the state.
perform_matching_NoGuard(s, pair) ==
    [s EXCEPT !.match_score = Some(pair[1]),
              !.feedback = pair[2],
              !.error_message = None]

\* perform_matching, given the pair calculate_match_and_feedback returns.
perform_matching(s, pair) ==
    IF HasError(s) \/ s.parsed_resume = None \/ s.parsed_jd = None
    THEN IF ~HasError(s)
         THEN [s EXCEPT !.error_message =
                 ErrorText("", "Cannot perform matching due to missing parsed resume or JD.")]
         ELSE s
    ELSE [s EXCEPT !.match_score = Some(pair[1]),
                   !.feedback = pair[2],
                   !.error_message = None]

\* The guard of save_to_database written with a truth test on the score, so
\* that a score of 0 is taken for a missing one.
SaveSkipped_Falsy(s) ==
    HasError(s) \/ s.match_score = None \/ s.match_score = Some(0)

\* The guard of save_to_database: the save is skipped.
SaveSkipped(s) == HasError(s) \/ s.match_score = None

\* save_to_database that drops the job record from the state once the row is
\* stored.
save_to_database_DropsRecord(s, result) ==
    IF SaveSkipped(s) THEN [s EXCEPT !.db_save_status = FALSE]
    ELSE IF result = "raise"
    THEN [s EXCEPT !.error_message = ErrorText("Database Save Failed", "error"),
                   !.db_save_status = FALSE]
    ELSE IF result = "false"
    THEN [s EXCEPT !.db_save_status = FALSE,
                   !.error_message = IF ~HasError(s)
                                     THEN ErrorText("", "Failed to save results to the database.")
                                     ELSE @]
    ELSE [s EXCEPT !.db_save_status = TRUE, !.error_message = None,
                   !.parsed_jd = None]

\* save_to_database that records no error when the save returns False.
save_to_database_SilentFalse(s, result) ==
    IF SaveSkipped(s) THEN [s EXCEPT !.db_save_status = FALSE]
    ELSE IF result = "raise"
    THEN [s EXCEPT !.error_message = ErrorText("Database Save Failed", "error"),
                   !.db_save_status = FALSE]
    ELSE IF result = "false"
    THEN [s EXCEPT !.db_save_status = FALSE]
    ELSE [s EXCEPT !.db_save_status = TRUE, !.error_message = None]

\* save_to_database, given the result of save_match_results.
save_to_database(s, result) ==
    IF SaveSkipped(s) THEN [s EXCEPT !.db_save_status = FALSE]
    ELSE IF result = "raise"
    THEN [s EXCEPT !.error_message = ErrorText("Database Save Failed", "error"),
                   !.db_save_status = FALSE]
    ELSE IF result = "false"
    THEN [s EXCEPT !.db_save_status = FALSE,
                   !.error_message = IF ~HasError(s)
                                     THEN ErrorText("", "Failed to save results to the database.")
                                     ELSE @]
    ELSE [s EXCEPT !.db_save_status = TRUE, !.error_message = None]

\* The guard of send_candidate_email written with a truth test on the score,
\* so that a score of 0 is taken for a missing one.
EmailSkipped_Falsy(s) ==
    \/ s.match_score = None
    \/ s.match_score = Some(0)
    \/ s.parsed_resume = None
    \/ ~TruthyStr(s.feedback)

\* The guard of send_candidate_email: the mail is skipped.
EmailSkipped(s) ==
    s.match_score = None \/ s.parsed_resume = None \/ ~TruthyStr(s.feedback)

\* send_candidate_email whose skip branch records its message over an error
\* recorded earlier.
send_candidate_email_Overwrite(s, result) ==
    IF EmailSkipped(s)
    THEN [s EXCEPT !.email_sent_status = FALSE,
                   !.error_message = ErrorText("", "Email not sent due to missing information.")]
    ELSE IF result = "raise"
    THEN [s EXCEPT !.error_message = ErrorText("Email Sending Failed", "error"),
                   !.email_sent_status = FALSE]
    ELSE [s EXCEPT !.email_sent_status = (result = "true"),
                   !.error_message = IF result # "true" /\ ~HasError(s)
                                     THEN ErrorText("", "Failed to send email (check logs and email config).")
                                     ELSE @]

\* send_candidate_email that reports the mail as sent whenever the mail
\* function was called and did not raise.
send_candidate_email_AlwaysSent(s, result) ==
    IF EmailSkipped(s)
    THEN [s EXCEPT !.email_sent_status = FALSE,
                   !.error_message = IF ~HasError(s)
                                     THEN ErrorText("", "Email not sent due to missing information.")
                                     ELSE @]
    ELSE IF result = "raise"
    THEN [s EXCEPT !.error_message = ErrorText("Email Sending Failed", "error"),
                   !.email_sent_status = FALSE]
    ELSE [s EXCEPT !.email_sent_status = TRUE,
                   !.error_message = IF result # "true" /\ ~HasError(s)
                                     THEN ErrorText("", "Failed to send email (check logs and email config).")
                                     ELSE @]

\* send_candidate_email that clears the error once the mail is sent, as
\* save_to_database does once the row is stored.
send_candidate_email_ClearsError(s, result) ==
    IF EmailSkipped(s)
    THEN [s EXCEPT !.email_sent_status = FALSE,
                   !.error_message = IF ~HasError(s)
                                     THEN ErrorText("", "Email not sent due to missing information.")
                                     ELSE @]
    ELSE IF result = "raise"
    THEN [s EXCEPT !.error_message = ErrorText("Email Sending Failed", "error"),
                   !.email_sent_status = FALSE]
    ELSE IF result = "true"
    THEN [s EXCEPT !.email_sent_status = TRUE, !.error_message = None]
    ELSE [s EXCEPT !.email_sent_status = FALSE,
                   !.error_message = IF ~HasError(s)
                                     THEN ErrorText("", "Failed to send email (check logs and email config).")
                                     ELSE @]

\* send_candidate_email, given the result of send_application_email.
send_candidate_email(s, result) ==
    IF EmailSkipped(s)
    THEN [s EXCEPT !.email_sent_status = FALSE,
                   !.error_message = IF ~HasError(s)
                                     THEN ErrorText("", "Email not sent due to missing information.")
                                     ELSE @]
    ELSE IF result = "raise"
    THEN [s EXCEPT !.error_message = ErrorText("Email Sending Failed", "error"),
                   !.email_sent_status = FALSE]
    ELSE [s EXCEPT !.email_sent_status = (result = "true"),
                   !.error_message = IF result # "true" /\ ~HasError(s)
                                     THEN ErrorText("", "Failed to send email (check logs and email config).")
                                     ELSE @]

\* The conditional edges of build_graph: after a gated node, the next node
\* when no error is recorded, else END.
Route(next, s) == IF ~HasError(s) THEN next ELSE "END"

\* Edge with the conditional edge after parse_jd replaced by a plain edge.
Edge_PlainAfterJd(node, s) ==
    CASE node = "load_validate" -> Route("parse_resume", s)
      [] node = "parse_resume" -> Route("parse_jd", s)
      [] node = "parse_jd" -> "match"
      [] node = "match" -> Route("save_db", s)
      [] node = "save_db" -> "send_email"
      [] node = "send_email" -> "END"

\* Edge with the edge after save_db made conditional on the error, like the
\* four before it.
Edge_GatedAfterSave(node, s) ==
    CASE node = "load_validate" -> Route("parse_resume", s)
      [] node = "parse_resume" -> Route("parse_jd", s)
      [] node = "parse_jd" -> Route("match", s)
      [] node = "match" -> Route("save_db", s)
      [] node = "save_db" -> Route("send_email", s)
      [] node = "send_email" -> "END"

\* Edge with a retry: after a scoring that gave 0, the match node runs again.
Edge_RetryMatch(node, s) ==
    CASE node = "load_validate" -> Route("parse_resume", s)
      [] node = "parse_resume" -> Route("parse_jd", s)
      [] node = "parse_jd" -> Route("match", s)
      [] node = "match" -> IF s.match_score = Some(0) THEN "match"
                           ELSE Route("save_db", s)
      [] node = "save_db" -> "send_email"
      [] node = "send_email" -> "END"

\* Edge with every conditional edge replaced by a plain one: the six nodes
\* always run in a row.
Edge_AllPlain(node, s) ==
    CASE node = "load_validate" -> "parse_resume"
      [] node = "parse_resume" -> "parse_jd"
      [] node = "parse_jd" -> "match"
      [] node = "match" -> "save_db"
      [] node = "save_db" -> "send_email"
      [] node = "send_email" -> "END"

\* The edges of build_graph: the node that runs after `node` has returned s.
Edge(node, s) ==
    CASE node = "load_validate" -> Route("parse_resume", s)
      [] node = "parse_resume" -> Route("parse_jd", s)
      [] node = "parse_jd" -> Route("match", s)
      [] node = "match" -> Route("save_db", s)
      [] node = "save_db" -> "send_email"
      [] node = "send_email" -> "END"

\* ---------------------------------------------------------- the inputs ----

FileContents == {None, Some(<<>>), Some(<<" ", "c", "v">>)}

FileNames ==
    {None,
     Some(<<"a", ".", "P", "D", "F">>),
     Some(<<"a", ".", "d", "o", "c", "x">>),
     Some(<<"a", ".", "T", "x", "t">>),
     Some(<<"a", ".", "e", "x", "e">>)}

SelectedTitles ==
    {None, Some(<<>>),
     Some(<<"D", "E", "V", " ">>),
     Some(<<"q", "a">>),
     Some(<<"o", "p", "\n", "s">>),
     Some(<<"c", "e", "o">>)}

OldRow ==
    [candidate_name |-> Some("Bob"), candidate_email |-> None,
     applied_job_title |-> <<"q", "a">>, match_score |-> 5000,
     feedback |-> Some("Earlier run.")]

RECURSIVE OldRows(_)
OldRows(n) == IF n = 0 THEN <<>> ELSE Append(OldRows(n - 1), OldRow)

\* Nothing observed yet.  resume / jd: "raised" or "returned" once the parser
\* was called; scoring: "failed" or "ok" once the scoring call was made;
\* save_result / email_result: "true", "false" or "raise", and for
\* email_result also "blocked".
NoObs ==
    [resume |-> "none", jd |-> "none", scoring |-> "none",
     model_score |-> None, save_args |-> None, save_result |-> "none",
     email_args |-> None, email_result |-> "none"]

Outcome(r) == IF r.raised THEN "raised" ELSE "returned"

\* The state in which graph.invoke(initial_state) starts: the script has
\* run setup_database() (main.py, top level) and built initial_state.
Init ==
    /\ pc = "load_validate"
    /\ \E c \in FileContents, f \in FileNames, t \in SelectedTitles :
          state = initial_state(c, f, t)
    /\ env \in [csv : CsvFiles, api_key : BOOLEAN, email_creds : BOOLEAN]
    /\ \E existed \in BOOLEAN, ok \in BOOLEAN, n \in 0..MaxOldRows :
          db = setup_database(
                  [table |-> existed, rows |-> IF existed THEN OldRows(n) ELSE <<>>],
                  ok)
    /\ outbox = <<>>
    /\ trace = <<>>
    /\ calls = <<>>
    /\ obs = NoObs

\* ------------------------------------------------------------ the nodes ---

LoadAndValidate ==
    /\ pc = "load_validate"
    /\ state' = load_and_validate_input(state, env.csv)
    /\ pc' = Edge("load_validate", state')
    /\ trace' = Append(trace, "load_validate")
    /\ UNCHANGED <<env, db, outbox, calls, obs>>

ExtractResume ==
    /\ pc = "parse_resume"
    /\ IF HasError(state)
       THEN /\ state' = state
            /\ UNCHANGED <<calls, obs>>
       ELSE \E extracted \in ExtractedTexts, reply \in ResumeReplies :
              LET r == parse_resume_file(state.uploaded_file_content[1],
                                         state.uploaded_filename[1],
                                         extracted, env.api_key, reply)
              IN  /\ state' = process_resume(state, r)
                  /\ calls' = calls \o <<"parse_resume_file">>
                                    \o (IF r.called
                                        THEN <<"call_deepseek_for_resume_parsing">>
                                        ELSE <<>>)
                  /\ obs' = [obs EXCEPT !.resume = Outcome(r)]
    /\ pc' = Edge("parse_resume", state')
    /\ trace' = Append(trace, "parse_resume")
    /\ UNCHANGED <<env, db, outbox>>

ExtractJob ==
    /\ pc = "parse_jd"
    /\ IF HasError(state)
       THEN /\ state' = state
            /\ UNCHANGED <<calls, obs>>
       ELSE \E reply \in JdReplies :
              LET r == parse_job_description(state.selected_job_title[1],
                                             state.job_descriptions_df[1],
                                             env.api_key, reply)
              IN  /\ state' = process_job_description(state, r)
                  /\ calls' = calls \o <<"parse_job_description">>
                                    \o (IF r.called
                                        THEN <<"call_deepseek_for_jd_parsing">>
                                        ELSE <<>>)
                  /\ obs' = [obs EXCEPT !.jd = Outcome(r)]
    /\ pc' = Edge("parse_jd", state')
    /\ trace' = Append(trace, "parse_jd")
    /\ UNCHANGED <<env, db, outbox>>

Score ==
    /\ pc = "match"
    /\ IF HasError(state) \/ state.parsed_resume = None \/ state.parsed_jd = None
       THEN /\ state' = perform_matching(state, default_response)
            /\ calls' = calls
            /\ obs' = obs
       ELSE \E reply \in MatchReplies :
              /\ state' = perform_matching(state,
                              calculate_match_and_feedback(env.api_key, reply))
              /\ calls' = Append(calls, "calculate_match_and_feedback")
              /\ obs' = [obs EXCEPT
                           !.scoring = IF ScoringFailed(env.api_key, reply)
                                       THEN "failed" ELSE "ok",
                           !.model_score = ParsedScoreKey(env.api_key, reply)]
    /\ pc' = Edge("match", state')
    /\ trace' = Append(trace, "match")
    /\ UNCHANGED <<env, db, outbox>>

Persist ==
    /\ pc = "save_db"
    /\ IF SaveSkipped(state)
       THEN /\ state' = save_to_database(state, "none")
            /\ UNCHANGED <<db, calls, obs>>
       ELSE \E commit \in CommitOutcomes :
              LET r == save_match_results(db, state.parsed_resume[1],
                                          state.parsed_jd[1], state.match_score[1],
                                          state.feedback, commit)
              IN  /\ state' = save_to_database(state, r.result)
                  /\ db' = r.db
                  /\ calls' = Append(calls, "save_match_results")
                  /\ obs' = [obs EXCEPT
                               !.save_args = Some([match_score |-> state.match_score[1],
                                                   feedback |-> state.feedback,
                                                   job_title |-> state.parsed_jd[1].job_title]),
                               !.save_result = r.result]
    /\ pc' = Edge("save_db", state')
    /\ trace' = Append(trace, "save_db")
    /\ UNCHANGED <<env, outbox>>

Notify ==
    /\ pc = "send_email"
    /\ IF EmailSkipped(state)
       THEN /\ state' = send_candidate_email(state, "none")
            /\ UNCHANGED <<outbox, calls, obs>>
       ELSE \E smtp \in SmtpOutcomes :
              LET r == send_application_email(env.email_creds,
                                              state.parsed_resume[1].email,
                                              state.parsed_resume[1].candidate_name,
                                              state.selected_job_title[1],
                                              state.match_score[1],
                                              state.feedback[1], smtp)
              IN  /\ state' = IF r.result = "blocked" THEN state
                               ELSE send_candidate_email(state, r.result)
                  /\ outbox' = IF r.mail = None THEN outbox
                               ELSE Append(outbox, r.mail[1])
                  /\ calls' = Append(calls, "send_application_email")
                  /\ obs' = [obs EXCEPT
                               !.email_args = Some([to_email |-> state.parsed_resume[1].email,
                                                    job_title |-> state.selected_job_title[1],
                                                    match_score |-> state.match_score[1],
                                                    feedback |-> state.feedback[1]]),
                               !.email_result = r.result]
    /\ pc' = IF obs'.email_result = "blocked" THEN "smtp_wait"
             ELSE Edge("send_email", state')
    /\ trace' = Append(trace, "send_email")
    /\ UNCHANGED <<env, db>>

Next ==
    \/ LoadAndValidate
    \/ ExtractResume
    \/ ExtractJob
    \/ Score
    \/ Persist
    \/ Notify

Spec == Init /\ [][Next]_vars

\* graph.invoke runs the nodes one after the other without pause: a node that
\* can run does run.
FairSpec == Spec /\ WF_vars(Next)

\* ------------------------------------------------------- several runs ---

\* Each click builds its own initial_state and calls graph.invoke on it;
\* several sessions do so at once.  Under SpecRuns the variables pc, state,
\* trace and obs hold one value per run, db and outbox are the one
\* database file and the one mail server, calls is not used, and env also
\* holds, per run, what each collaborator will answer (stub) and the
\* database as the script start left it (db0).

\* How many runs there are.
NumRuns == 2

Runs == 1..NumRuns

GoodResumeReply ==
    Reply("content", "plain",
          JsonText([shape |-> "object", candidate_name |-> FVal("Ann"),
                    email |-> FVal("ann@x.org"), schema_ok |-> TRUE], TRUE))

GoodJdReply ==
    Reply("content", "plain",
          JsonText([shape |-> "object", job_title |-> FVal(<<"c", "t", "o">>),
                    company |-> FMissing, location |-> FMissing,
                    schema_ok |-> TRUE], TRUE))

ScoreReply(n) ==
    Reply("content", "plain",
          JsonText([shape |-> "object",
                    match_score |-> [tag |-> "number", num |-> n],
                    feedback |-> FVal("Good fit.")], TRUE))

\* What the collaborators answer to one run: the text the document reader
\* extracts, the three model replies, the outcome of the commit and of the
\* SMTP exchange.
Stub(x, rr, jr, mr, c, m) ==
    [extracted |-> x, resume_reply |-> rr, jd_reply |-> jr, match_reply |-> mr,
     commit |-> c, smtp |-> m]

\* A run in which everything succeeds, with the raw score n.
GoodStub(n) ==
    Stub(Some(<<"c", "v">>), GoodResumeReply, GoodJdReply, ScoreReply(n), "ok", "sent")

Stubs ==
    {GoodStub(QualifyThreshold),
     GoodStub(MaxRawScore),
     [GoodStub(QualifyThreshold) EXCEPT !.commit = "sqlite_error"],
     [GoodStub(QualifyThreshold) EXCEPT !.commit = "error"]}

\* The inputs of a run: file bytes, file name and selected title.
RunInputs ==
    {<<Some(<<" ", "c", "v">>), Some(<<"a", ".", "T", "x", "t">>), t>> :
        t \in {Some(<<"D", "E", "V", " ">>), Some(<<"c", "e", "o">>)}}

\* One node of the graph run on the state s of a run, with the database d,
\* the environment e and the answers st: the state the node returns, the
\* database afterwards, the mail sent if any, what Save and the mail function
\* returned if called, and the node the edge after it leads to.
RunNode(node, s, d, e, st) ==
    LET Plain(s2) == [state |-> s2, db |-> d, mail |-> None,
                      save_result |-> "none", email_result |-> "none",
                      next |-> Edge(node, s2)]
    IN  CASE node = "load_validate" ->
                Plain(load_and_validate_input(s, e.csv))
          [] node = "parse_resume" ->
                IF HasError(s) THEN Plain(s)
                ELSE Plain(process_resume(s,
                         parse_resume_file(s.uploaded_file_content[1],
                                           s.uploaded_filename[1], st.extracted,
                                           e.api_key, st.resume_reply)))
          [] node = "parse_jd" ->
                IF HasError(s) THEN Plain(s)
                ELSE Plain(process_job_description(s,
                         parse_job_description(s.selected_job_title[1],
                                               s.job_descriptions_df[1],
                                               e.api_key, st.jd_reply)))
          [] node = "match" ->
                IF HasError(s) \/ s.parsed_resume = None \/ s.parsed_jd = None
                THEN Plain(perform_matching(s, default_response))
                ELSE Plain(perform_matching(s,
                         calculate_match_and_feedback(e.api_key, st.match_reply)))
          [] node = "save_db" ->
                IF SaveSkipped(s) THEN Plain(save_to_database(s, "none"))
                ELSE LET r == save_match_results(d, s.parsed_resume[1], s.parsed_jd[1],
                                                 s.match_score[1], s.feedback, st.commit)
                         s2 == save_to_database(s, r.result)
                     IN  [state |-> s2, db |-> r.db, mail |-> None,
                          save_result |-> r.result, email_result |-> "none",
                          next |-> Edge(node, s2)]
          [] node = "send_email" ->
                IF EmailSkipped(s) THEN Plain(send_candidate_email(s, "none"))
                ELSE LET r == send_application_email(e.email_creds,
                                  s.parsed_resume[1].email,
                                  s.parsed_resume[1].candidate_name,
                                  s.selected_job_title[1], s.match_score[1],
                                  s.feedback[1], st.smtp)
                         s2 == IF r.result = "blocked" THEN s
                               ELSE send_candidate_email(s, r.result)
                     IN  [state |-> s2, db |-> d, mail |-> r.mail,
                          save_result |-> "none", email_result |-> r.result,
                          next |-> IF r.result = "blocked" THEN "smtp_wait"
                                   ELSE Edge(node, s2)]

\* graph.invoke(s) from the node `node` on, run alone: the final state.
RECURSIVE Invoke(_, _, _, _, _)
Invoke(node, s, d, e, st) ==
    IF node \in {"END", "smtp_wait"} THEN s
    ELSE LET r == RunNode(node, s, d, e, st)
         IN  Invoke(r.next, r.state, r.db, e, st)

InitRuns ==
    /\ pc = [i \in Runs |-> "load_validate"]
    /\ \E in \in [Runs -> RunInputs] :
          state = [i \in Runs |-> initial_state(in[i][1], in[i][2], in[i][3])]
    /\ \E existed \in BOOLEAN, ok \in BOOLEAN :
          db = setup_database(
                  [table |-> existed,
                   rows |-> IF existed THEN OldRows(MaxOldRows) ELSE <<>>],
                  ok)
    /\ \E stub \in [Runs -> Stubs] :
          env = [csv |-> Some([columns |-> AllColumns, rows |-> JobRows]),
                 api_key |-> TRUE, email_creds |-> TRUE,
                 stub |-> stub, db0 |-> db]
    /\ outbox = <<>>
    /\ trace = [i \in Runs |-> <<>>]
    /\ calls = <<>>
    /\ obs = [i \in Runs |-> NoObs]

\* Run i executes the node it stands at, writing into the state of every
\* run, as if all runs were handed the same dictionary.
Advance_SharedState(i) ==
    LET r == RunNode(pc[i], state[i], db, env, env.stub[i])
    IN  /\ state' = [j \in Runs |-> r.state]
        /\ pc' = [pc EXCEPT ![i] = r.next]
        /\ db' = r.db
        /\ outbox' = IF r.mail = None THEN outbox ELSE Append(outbox, r.mail[1])
        /\ trace' = [trace EXCEPT ![i] = Append(@, pc[i])]
        /\ obs' = [obs EXCEPT
                     ![i].save_result = IF r.save_result = "none" THEN @
                                        ELSE r.save_result,
                     ![i].email_result = IF r.email_result = "none" THEN @
                                         ELSE r.email_result]
        /\ UNCHANGED <<env, calls>>

\* Run i executes the node it stands at.
Advance(i) ==
    LET r == RunNode(pc[i], state[i], db, env, env.stub[i])
    IN  /\ state' = [state EXCEPT ![i] = r.state]
        /\ pc' = [pc EXCEPT ![i] = r.next]
        /\ db' = r.db
        /\ outbox' = IF r.mail = None THEN outbox ELSE Append(outbox, r.mail[1])
        /\ trace' = [trace EXCEPT ![i] = Append(@, pc[i])]
        /\ obs' = [obs EXCEPT
                     ![i].save_result = IF r.save_result = "none" THEN @
                                        ELSE r.save_result,
                     ![i].email_result = IF r.email_result = "none" THEN @
                                         ELSE r.email_result]
        /\ UNCHANGED <<env, calls>>

RunsLoadAndValidate == \E i \in Runs : pc[i] = "load_validate" /\ Advance(i)
RunsExtractResume == \E i \in Runs : pc[i] = "parse_resume" /\ Advance(i)
RunsExtractJob == \E i \in Runs : pc[i] = "parse_jd" /\ Advance(i)
RunsScore == \E i \in Runs : pc[i] = "match" /\ Advance(i)
RunsPersist == \E i \in Runs : pc[i] = "save_db" /\ Advance(i)
RunsNotify == \E i \in Runs : pc[i] = "send_email" /\ Advance(i)

NextRuns ==
    \/ RunsLoadAndValidate
    \/ RunsExtractResume
    \/ RunsExtractJob
    \/ RunsScore
    \/ RunsPersist
    \/ RunsNotify

SpecRuns == InitRuns /\ [][NextRuns]_vars

\* ------------------------------------------------- one node at a time ---

\* A node is a function from AppState to AppState and can be handed any
\* dictionary of that type, not only those the edges of the graph let
\* through.  SpecStages starts any node on any such dictionary and lets the
\* graph go on from there.

\* An error recorded by an earlier node.
UpstreamError == ErrorText("Resume Parsing Failed", "Failed to parse resume: reader error")

StageResumes == {None, Some([candidate_name |-> Some("Ann"), email |-> Some("ann@x.org")])}

StageJds ==
    {None, Some([job_title |-> <<"D", "E", "V", " ">>, company |-> Some("Acme"),
                 location |-> None])}

\* The dictionaries a node is started on: valid inputs and the catalog
\* loaded; either record present or absent; score and feedback present only
\* where perform_matching could have written them; an error recorded or not.
StageStates ==
    {[initial_state(Some(<<" ", "c", "v">>), Some(<<"a", ".", "T", "x", "t">>),
                    Some(<<"D", "E", "V", " ">>))
        EXCEPT !.job_descriptions_df = Some([columns |-> AllColumns, rows |-> JobRows]),
               !.parsed_resume = pr,
               !.parsed_jd = pj,
               !.match_score = IF scored /\ pr # None /\ pj # None /\ em = None
                               THEN Some(QualifyThreshold) ELSE None,
               !.feedback = IF scored /\ pr # None /\ pj # None /\ em = None
                            THEN Some("Good fit.") ELSE None,
               !.error_message = em] :
        pr \in StageResumes, pj \in StageJds, scored \in BOOLEAN,
        em \in {None, UpstreamError}}

InitStages ==
    /\ pc \in {"load_validate", "parse_resume", "parse_jd", "match",
               "save_db", "send_email"}
    /\ state \in StageStates
    /\ env = [csv |-> Some([columns |-> AllColumns, rows |-> JobRows]),
              api_key |-> TRUE, email_creds |-> TRUE]
    /\ db = [table |-> TRUE, rows |-> OldRows(MaxOldRows)]
    /\ outbox = <<>>
    /\ trace = <<>>
    /\ calls = <<>>
    /\ obs = NoObs

SpecStages == InitStages /\ [][Next]_vars

\* ------------------------------------------------------------ properties ---

Range(q) == {q[i] : i \in 1..Len(q)}

GatedNodes == {"load_validate", "parse_resume", "parse_jd", "match"}

\* The node that follows a gated node in the fixed order.
Following(node) ==
    CASE node = "load_validate" -> "parse_resume"
      [] node = "parse_resume" -> "parse_jd"
      [] node = "parse_jd" -> "match"
      [] node = "match" -> "save_db"

\* C1 (short-circuit): every step taken from one of the four gated stages
\* runs that stage and then, if the state it returns has the error set, goes
\* straight to END, and otherwise goes to the next stage in order; once at
\* END no stage runs any more, so after an error neither Persist nor Notify
\* ever executes.
C1_ShortCircuit ==
    [][ /\ pc \in GatedNodes =>
              /\ trace' = Append(trace, pc)
              /\ pc' = IF HasError(state') THEN "END" ELSE Following(pc)
        /\ pc = "END" => (pc' = "END" /\ trace' = trace)
        /\ (HasError(state) /\ pc # "load_validate" /\ Len(trace) <= 4)
              => pc = "END" ]_vars

\* A run halted by ExtractJob: three stages ran, the error is set, the run
\* is done and Persist and Notify did not run.
C1_Witness ==
    /\ pc = "END"
    /\ trace = <<"load_validate", "parse_resume", "parse_jd">>
    /\ HasError(state)

\* C2 (Persist -> Notify is unconditional): whenever Persist has executed,
\* whatever Save did, the run is not done until Notify has executed: Notify
\* is the stage right after Persist, and a finished run that ran Persist
\* ended with Notify.
C2_PersistThenNotify ==
    \A i \in 1..Len(trace) :
        trace[i] = "save_db" =>
            /\ IF i = Len(trace)
               THEN pc = "send_email"
               ELSE trace[i + 1] = "send_email"
            /\ pc = "END" => trace[Len(trace)] = "send_email"

\* A finished run in which Save raised and Notify still ran.
C2_Witness ==
    /\ pc = "END"
    /\ obs.save_result = "raise"
    /\ Len(trace) = 6
    /\ trace[5] = "save_db"
    /\ trace[6] = "send_email"

\* C3 (first error wins): once the error field is set, no later stage of the
\* run clears it or replaces it with another message.
C3_FirstErrorWins ==
    [][HasError(state) => state'.error_message = state.error_message]_vars

\* C4 (scoring failure halts the run): whenever the scoring model call has
\* failed, the error is set, score and feedback are absent, and the run is
\* done without Persist or Notify: no row stored, no mail sent.
C4_ScoringFailureHalts ==
    obs.scoring = "failed" =>
        /\ HasError(state)
        /\ state.match_score = None
        /\ state.feedback = None
        /\ pc = "END"
        /\ "save_db" \notin Range(trace)
        /\ "send_email" \notin Range(trace)
        /\ "save_match_results" \notin Range(calls)
        /\ outbox = <<>>

\* No row of the catalog has the selected title, compared after trimming and
\* lower-casing both.
NoRowMatches ==
    /\ state.selected_job_title # None
    /\ state.job_descriptions_df # None
    /\ \A i \in 1..Len(state.job_descriptions_df[1].rows) :
          Lower(Strip(state.job_descriptions_df[1].rows[i].title))
             # Lower(Strip(state.selected_job_title[1]))

\* C5 (unknown job title): once ExtractJob has run for a title that matches
\* no catalog row, the run is done with the error set, job_record, score and
\* feedback absent, persisted and notified false, and neither Persist nor
\* Notify executed nor Save or the mail function invoked.
C5_UnknownTitleHalts ==
    ("parse_jd" \in Range(trace) /\ NoRowMatches) =>
        /\ pc = "END"
        /\ HasError(state)
        /\ state.parsed_jd = None
        /\ state.match_score = None
        /\ state.feedback = None
        /\ ~state.db_save_status
        /\ ~state.email_sent_status
        /\ trace = <<"load_validate", "parse_resume", "parse_jd">>
        /\ "save_match_results" \notin Range(calls)
        /\ "send_application_email" \notin Range(calls)

\* A run with a parsed resume, a non-empty catalog and a title not in it.
C5_Witness ==
    /\ pc = "END"
    /\ "parse_jd" \in Range(trace)
    /\ NoRowMatches
    /\ state.parsed_resume # None
    /\ state.job_descriptions_df[1].rows # <<>>

\* C6 (resume extraction failure): whenever parse_resume_file has failed, the
\* error is set, resume_record is absent and the run is done after
\* ExtractResume: ExtractJob did not run, the job parser and its model were
\* not invoked, and job_record is absent.
C6_ResumeFailureHalts ==
    obs.resume = "raised" =>
        /\ HasError(state)
        /\ state.parsed_resume = None
        /\ state.parsed_jd = None
        /\ pc = "END"
        /\ trace = <<"load_validate", "parse_resume">>
        /\ "parse_job_description" \notin Range(calls)
        /\ "call_deepseek_for_jd_parsing" \notin Range(calls)
        /\ obs.jd = "none"

\* The resume model was called and the extraction failed, for a title that
\* is in the catalog.
C6_Witness ==
    /\ pc = "END"
    /\ obs.resume = "raised"
    /\ "call_deepseek_for_resume_parsing" \in Range(calls)
    /\ state.selected_job_title = Some(<<"D", "E", "V", " ">>)
    /\ state.job_descriptions_df # None
    /\ state.job_descriptions_df[1].rows = JobRows

PersistenceErrors ==
    {ErrorText("", "Failed to save results to the database."),
     ErrorText("Database Save Failed", "error")}

\* C7 (persistence failure): in every finished run in which scoring produced
\* a score with feedback and Save then returned false or raised, the mail
\* function was still invoked, persisted is false, and the error is the
\* persistence message (no error is ever recorded before Persist runs Save).
C7_PersistFailureStillNotifies ==
    (/\ pc = "END"
     /\ obs.scoring = "ok"
     /\ TruthyStr(state.feedback)
     /\ obs.save_result \in {"false", "raise"}) =>
        /\ "send_application_email" \in Range(calls)
        /\ ~state.db_save_status
        /\ state.error_message \in PersistenceErrors

\* Load/validation, both extractions and scoring succeeded.
AllSucceeded ==
    /\ obs.resume = "returned"
    /\ obs.jd = "returned"
    /\ obs.scoring = "ok"

InRange(score) == ScoreLow <= score /\ score <= ScoreHigh

C9_ScoreFeedbackTogether ==
    state.match_score = None <=> state.feedback = None

\* The value max(0, min(100, s)) of a raw score s.
Clamped(s) ==
    IF s < ScoreLow THEN ScoreLow ELSE IF s > ScoreHigh THEN ScoreHigh ELSE s

\* C10 (clamping): a score in the run state lies in [0,100]; when the model
\* returned the number s, the score in the run state is max(0, min(100, s)),
\* and that value is the one handed to Save, stored in the row, handed to the
\* mail function and compared with the threshold to pick the message.
C10_Clamping ==
    /\ state.match_score # None => InRange(state.match_score[1])
    /\ (obs.model_score # None /\ obs.model_score[1].tag = "number") =>
          LET c == Clamped(obs.model_score[1].num)
          IN  /\ state.match_score = Some(c)
              /\ obs.save_args # None => obs.save_args[1].match_score = c
              /\ obs.save_result = "true" =>
                    db.rows[Len(db.rows)].match_score = c
              /\ obs.email_args # None => obs.email_args[1].match_score = c
              /\ obs.email_result = "true" =>
                    /\ outbox[Len(outbox)].match_score = c
                    /\ outbox[Len(outbox)].subject =
                          IF c >= QualifyThreshold THEN "Congratulations"
                          ELSE "Update"

\* The model returned a score above 100; the run stored and mailed 100.
C10_Witness ==
    /\ pc = "END"
    /\ obs.model_score # None
    /\ obs.model_score[1].tag = "number"
    /\ obs.model_score[1].num > ScoreHigh
    /\ state.match_score = Some(ScoreHigh)
    /\ obs.save_result = "true"
    /\ obs.email_result = "true"

\* C11 (notification tone): every message sent carries a score in [0,100]
\* and is the congratulatory one exactly when that score is at least 65.0;
\* the boundary is inclusive: 65.0 congratulates, 64.99 rejects.
C11_NotificationTone ==
    \A i \in 1..Len(outbox) :
        /\ InRange(outbox[i].match_score)
        /\ outbox[i].subject \in {"Congratulations", "Update"}
        /\ outbox[i].subject = "Congratulations" <=> outbox[i].match_score >= 6500
        /\ outbox[i].match_score = 6500 => outbox[i].subject = "Congratulations"
        /\ outbox[i].match_score = 6499 => outbox[i].subject = "Update"

\* A congratulatory message was sent for a score of exactly 65.0.
C11_Witness ==
    \E i \in 1..Len(outbox) :
        /\ outbox[i].match_score = QualifyThreshold
        /\ outbox[i].subject = "Congratulations"

\* The nodes in the order build_graph wires them.
StageOrder ==
    <<"load_validate", "parse_resume", "parse_jd", "match", "save_db", "send_email">>

\* The functions behind the five collaborators.
CollaboratorCalls ==
    {"parse_resume_file", "call_deepseek_for_resume_parsing",
     "parse_job_description", "call_deepseek_for_jd_parsing",
     "calculate_match_and_feedback", "save_match_results",
     "send_application_email"}

\* C14 (stage order, no retries): at every moment the stages executed so far
\* are the first k of the six in their fixed order, so none executed twice; a
\* finished run executed 1, 2, 3 or 4 of them or all six, never exactly five
\* (no run ends right after Persist); each collaborator was invoked at most
\* once.
C14_StageOrderNoRetries ==
    /\ Len(trace) <= Len(StageOrder)
    /\ trace = SubSeq(StageOrder, 1, Len(trace))
    /\ pc = "END" => Len(trace) \in {1, 2, 3, 4, 6}
    /\ pc \notin {"END", "smtp_wait"} => pc = StageOrder[Len(trace) + 1]
    /\ Range(calls) \subseteq CollaboratorCalls
    /\ \A i, j \in 1..Len(calls) : calls[i] = calls[j] => i = j

\* A finished run that executed all six stages and invoked every
\* collaborator function.
C14_Witness ==
    /\ pc = "END"
    /\ trace = StageOrder
    /\ Range(calls) = CollaboratorCalls

\* C19 (Save guard): every step of the Persist stage invokes Save exactly
\* when the error is absent and a score is present, 0 included, and then both
\* records are present; when the Save it invoked returns false or raises,
\* persisted is false, the error recorded is the persistence error (none was
\* recorded before, by the guard) and the run goes on to Notify; when Save is
\* not invoked the error is left as it was.
C19_SaveGuard ==
    [][pc = "save_db" =>
          LET invoked == calls' = Append(calls, "save_match_results")
          IN  /\ invoked \/ calls' = calls
              /\ invoked <=> (~HasError(state) /\ state.match_score # None)
              /\ invoked => (state.parsed_resume # None /\ state.parsed_jd # None)
              /\ (invoked /\ obs'.save_result # "true") =>
                    /\ ~state'.db_save_status
                    /\ state.error_message = None
                    /\ state'.error_message \in PersistenceErrors
                    /\ pc' = "send_email"
              /\ ~invoked =>
                    /\ state'.error_message = state.error_message
                    /\ db' = db ]_vars

\* Save was invoked with a score of 0 and failed, and the run went on to
\* Notify.
C19_Witness ==
    /\ pc = "send_email"
    /\ obs.save_args # None
    /\ obs.save_args[1].match_score = 0
    /\ obs.save_result \in {"false", "raise"}
    /\ ~state.db_save_status

\* The state lacks something a notification needs: the score, a non-empty
\* feedback, the resume record, or the address in it.
NotifyInputMissing(s) ==
    \/ s.match_score = None
    \/ s.feedback = None
    \/ s.feedback = Some("")
    \/ s.parsed_resume = None
    \/ s.parsed_resume[1].email = None
    \/ s.parsed_resume[1].email = Some("")

\* C20 (Notify guard): every step of the Notify stage taken from a state that
\* lacks the score, the feedback, the resume record or its address ends the
\* run with notified false and the error set, keeps an error that was already
\* recorded exactly as it was, and sends no mail.
C20_NotifyGuard ==
    [][(pc = "send_email" /\ NotifyInputMissing(state)) =>
          /\ ~state'.email_sent_status
          /\ HasError(state')
          /\ HasError(state) => state'.error_message = state.error_message
          /\ outbox' = outbox
          /\ pc' = "END" ]_vars

\* Notify ran after a failed Save for a state without feedback: the mail
\* function was not invoked and the persistence error is still the one
\* recorded.
C20_Witness ==
    /\ pc = "END"
    /\ trace = StageOrder
    /\ NotifyInputMissing(state)
    /\ "send_application_email" \notin Range(calls)
    /\ state.error_message \in PersistenceErrors
    /\ ~state.email_sent_status

\* A precondition of the run is missing: the catalog file cannot be loaded
\* (no file, or a required column is missing), the catalog has no row, the
\* uploaded bytes or the file name are absent, or no job title is selected.
PreconditionMissing ==
    \/ env.csv = None
    \/ ~({"Job Title", "Job Description"} \subseteq env.csv[1].columns)
    \/ env.csv[1].rows = <<>>
    \/ ~Truthy(state.uploaded_file_content)
    \/ ~Truthy(state.uploaded_filename)
    \/ ~Truthy(state.selected_job_title)

\* C18 (LoadAndValidate preconditions): once LoadAndValidate has run with a
\* precondition missing, the error is set and the run is done with no later
\* stage executed and no collaborator invoked.
C18_MissingPreconditionHalts ==
    (Len(trace) >= 1 /\ PreconditionMissing) =>
        /\ HasError(state)
        /\ pc = "END"
        /\ trace = <<"load_validate">>
        /\ calls = <<>>

\* C13 (errors are values): every step of a stage whose inputs are missing or
\* whose collaborator failed (returned a failure or raised) yields a run
\* state that records the failure: the error text for the first four stages,
\* the error text or a false completion flag for Persist and Notify.
C13_ErrorsAreValues ==
    [][ /\ (pc = "load_validate" /\ PreconditionMissing) => HasError(state')
        /\ (pc = "parse_resume" /\ obs'.resume = "raised") => HasError(state')
        /\ (pc = "parse_jd" /\ obs'.jd = "raised") => HasError(state')
        /\ (pc = "match" /\ (state.parsed_resume = None \/ state.parsed_jd = None))
              => HasError(state')
        /\ (pc = "match" /\ obs'.scoring = "failed") => HasError(state')
        /\ (pc = "save_db" /\ (SaveSkipped(state) \/ obs'.save_result \in {"false", "raise"}))
              => (HasError(state') \/ ~state'.db_save_status)
        /\ (pc = "send_email" /\ (EmailSkipped(state) \/ obs'.email_result \in {"false", "raise"}))
              => (HasError(state') \/ ~state'.email_sent_status) ]_vars

\* C15 (termination): every run eventually reaches Done, whatever the remote
\* dependencies do, a dependency that never answers included.
C15_EveryRunTerminates == <>(pc = "END")

\* Runs i and j were given the same file, file name and job title.
SameInputs(i, j) ==
    /\ state[i].uploaded_file_content = state[j].uploaded_file_content
    /\ state[i].uploaded_filename = state[j].uploaded_filename
    /\ state[i].selected_job_title = state[j].selected_job_title

\* The dictionary run i was started on.
InitialStateOf(i) ==
    initial_state(state[i].uploaded_file_content, state[i].uploaded_filename,
                  state[i].selected_job_title)

\* C12 (reruns): a run that has not started yet still has exactly the state
\* it was built with, whatever the runs before it wrote; and any two finished
\* runs that were given identical inputs and whose collaborators answered
\* the same are equal in every field of their final states.
C12_RerunsAgree ==
    \A i, j \in Runs :
        /\ trace[j] = <<>> => state[j] = InitialStateOf(j)
        /\ (/\ SameInputs(i, j)
            /\ env.stub[i] = env.stub[j]
            /\ pc[i] = "END"
            /\ pc[j] = "END") => state[i] = state[j]

\* The pipeline was run twice on identical inputs with the same answers:
\* both runs went through all six stages, each stored a row and sent a
\* mail.
C12_Witness ==
    /\ SameInputs(1, 2)
    /\ env.stub[1] = env.stub[2]
    /\ pc[1] = "END"
    /\ pc[2] = "END"
    /\ state[1].db_save_status
    /\ state[1].email_sent_status
    /\ state[2].db_save_status
    /\ state[2].email_sent_status
    /\ Len(db.rows) = Len(env.db0.rows) + 2
    /\ Len(outbox) = 2

\* C16 (run isolation): in every interleaving, a step of one run changes
\* neither the state nor the position of any other run; what it writes to
\* its own state is what the node computes from that state alone; and a run
\* that finishes does so in the state it reaches when run alone from the
\* same inputs with the same collaborator answers.
C16_RunIsolation ==
    [][\A i \in Runs :
          pc'[i] # pc[i] =>
             /\ \A j \in Runs \ {i} :
                   /\ state'[j] = state[j]
                   /\ pc'[j] = pc[j]
                   /\ trace'[j] = trace[j]
             /\ state'[i] = RunNode(pc[i], state[i], env.db0, env, env.stub[i]).state
             /\ pc'[i] = "END" =>
                   state'[i] = Invoke("load_validate", InitialStateOf(i),
                                      env.db0, env, env.stub[i]) ]_vars

\* Two runs with different scores ran interleaved and both finished: run A
\* stored its row before run B did, and run B sent its mail before run A.
C16_Witness ==
    /\ \A i \in Runs : pc[i] = "END"
    /\ Len(db.rows) = Len(env.db0.rows) + 2
    /\ Len(outbox) = 2
    /\ db.rows[Len(db.rows)].match_score = outbox[1].match_score
    /\ db.rows[Len(db.rows) - 1].match_score = outbox[2].match_score
    /\ outbox[1].match_score # outbox[2].match_score

\* The runs whose state says the row was stored.
Persisted(st) == {i \in Runs : st[i].db_save_status}

\* C17 (store appends): in every interleaving, every step leaves the rows
\* already stored as they were and in place; the number of rows a step adds
\* is the number of runs whose persisted flag it turns true, at most one; a
\* persisted flag never turns false again; and a Save that returned false or
\* raised added no row.  So the rows added are as many as the runs that end
\* with persisted true.
C17_StoreAppends ==
    [][ /\ Len(db'.rows) >= Len(db.rows)
        /\ SubSeq(db'.rows, 1, Len(db.rows)) = db.rows
        /\ Persisted(state) \subseteq Persisted(state')
        /\ Len(db'.rows) - Len(db.rows)
              = Cardinality(Persisted(state') \ Persisted(state))
        /\ Len(db'.rows) - Len(db.rows) <= 1
        /\ Len(db'.rows) - Len(env.db0.rows) = Cardinality(Persisted(state'))
        /\ \A i \in Runs :
              (pc[i] = "save_db" /\ pc'[i] # pc[i]
                 /\ obs'[i].save_result \in {"false", "raise"}) => db' = db ]_vars

\* Two runs for the same candidate and job finished; the Save of one
\* succeeded and the Save of the other failed: one row more than at the
\* start, after the rows that were there.
C17_Witness ==
    /\ \A i \in Runs : pc[i] = "END"
    /\ \E i, j \in Runs :
          /\ obs[i].save_result = "true"
          /\ obs[j].save_result \in {"false", "raise"}
          /\ SameInputs(i, j)
    /\ env.db0.rows # <<>>
    /\ Len(db.rows) = Len(env.db0.rows) + 1

\* C21 (completion flags): in every finished run, persisted is true exactly
\* when Save was invoked and returned success, and notified is true exactly
\* when the mail function was invoked and returned success; in a run that
\* halted before Persist both flags are false.
C21_FlagsReflectResults ==
    pc = "END" =>
        /\ state.db_save_status <=>
              ("save_match_results" \in Range(calls) /\ obs.save_result = "true")
        /\ state.email_sent_status <=>
              ("send_application_email" \in Range(calls) /\ obs.email_result = "true")
        /\ Len(trace) <= 4 => (~state.db_save_status /\ ~state.email_sent_status)

\* A finished run in which Save returned false and the mail was sent.
C21_Witness ==
    /\ pc = "END"
    /\ obs.save_result = "false"
    /\ obs.email_result = "true"
    /\ ~state.db_save_status
    /\ state.email_sent_status

\* C22 (Score guard): every step of the Score stage taken from a state with
\* an error recorded, or with the resume record or the job record absent,
\* makes no call to the scoring collaborator, leaves score and feedback
\* absent, keeps a recorded error exactly as it was and records the
\* explanatory one when none was, and ends the run.
C22_ScoreGuard ==
    [][(/\ pc = "match"
        /\ (HasError(state) \/ state.parsed_resume = None \/ state.parsed_jd = None)) =>
          /\ calls' = calls
          /\ obs'.scoring = "none"
          /\ state'.match_score = None
          /\ state'.feedback = None
          /\ state'.error_message =
                IF HasError(state) THEN state.error_message
                ELSE ErrorText("", "Cannot perform matching due to missing parsed resume or JD.")
          /\ pc' = "END" ]_vars

\* The Score stage ran on a state with the job record absent and an upstream
\* error recorded: the run is done with that error and no score.
C22_Witness ==
    /\ pc = "END"
    /\ trace = <<"match">>
    /\ state.parsed_jd = None
    /\ state.parsed_resume # None
    /\ state.error_message = UpstreamError
    /\ state.match_score = None
    /\ calls = <<>>

\* The catalog row parse_job_description works on: the first whose title is
\* the selected one after trimming and lower-casing.
CatalogRow == MatchingRows(state.job_descriptions_df[1], state.selected_job_title[1])[1]

\* The catalog's value for a column of that row: None when the file has no
\* such column or the cell is empty.
CatalogValue(column, cell) ==
    IF column \in state.job_descriptions_df[1].columns THEN cell ELSE None

\* A key of the model's JSON holds non-empty text.
Supplied(f) == f # FMissing /\ f[1] # None /\ f[1][1] # ""

\* What the record must hold for a key, given the model's key and the
\* catalog's value.
Overlaid(f, catalog) ==
    IF Supplied(f) THEN f[1]
    ELSE IF catalog # None THEN catalog
    ELSE OptAttr(f)

\* C23 (ExtractJob overlay): wherever ExtractJob is about to run, for every
\* reply of the model for which the parser returns a record, the record's
\* title is the selected title exactly as selected; its company (and its
\* location) is the model's when the model gave a non-empty one, the
\* catalog's when the model gave none or an empty one and the catalog has
\* one, and the model's otherwise.  (The records of this model carry no
\* other field.)
C23_Overlay ==
    (pc = "parse_jd" /\ ~HasError(state)) =>
        \A reply \in JdReplies :
            LET r == parse_job_description(state.selected_job_title[1],
                                           state.job_descriptions_df[1],
                                           env.api_key, reply)
                doc == call_deepseek_for_jd_parsing(env.api_key, reply).value
            IN  ~r.raised =>
                  /\ r.value[1].job_title = state.selected_job_title[1]
                  /\ r.value[1].company
                        = Overlaid(doc.company, CatalogValue("Company", CatalogRow.company))
                  /\ r.value[1].location
                        = Overlaid(doc.location, CatalogValue("Location", CatalogRow.location))

\* ExtractJob has run for the title "DEV " (matching the row " Dev" of Acme,
\* which has no location): the record has the title as selected, the
\* catalog's company and the model's location.
C23_Witness ==
    /\ pc = "match"
    /\ state.parsed_jd # None
    /\ state.parsed_jd[1].job_title = <<"D", "E", "V", " ">>
    /\ state.parsed_jd[1].company = Some("Acme")
    /\ state.parsed_jd[1].location = Some("Rome")

\* The positions of the catalog rows whose title is the selected one after
\* trimming and lower-casing both.
MatchPositions ==
    {i \in 1..Len(state.job_descriptions_df[1].rows) :
        Lower(Strip(state.job_descriptions_df[1].rows[i].title))
           = Lower(Strip(state.selected_job_title[1]))}

\* The description of the first such row is empty or only whitespace.
MatchedDescriptionBlank ==
    LET first == CHOOSE i \in MatchPositions : \A j \in MatchPositions : i <= j
        text == state.job_descriptions_df[1].rows[first].description
    IN  text = <<>> \/ IsSpace(text)

TitleNotFound ==
    ErrorText("Job Description Parsing Failed",
              "Failed to parse job description: Job title not found in the provided CSV.")

DescriptionEmpty ==
    ErrorText("Job Description Parsing Failed",
              "Failed to parse job description: Job description text is empty.")

\* C24 (catalog lookup): once ExtractJob has called the job parser, the
\* parser reported "title not found" exactly when no catalog row has the
\* selected title after trimming and lower-casing both; when no row matches,
\* or the first matching row's description is empty or whitespace, the error
\* is set, job_record is absent, the run is done and the model was not
\* called; in every other case the model was called.
C24_CatalogLookup ==
    obs.jd # "none" =>
        LET found == MatchPositions # {}
            usable == found /\ ~MatchedDescriptionBlank
        IN  /\ (state.error_message = TitleNotFound) <=> ~found
            /\ (found /\ ~usable) => state.error_message = DescriptionEmpty
            /\ ~usable =>
                  /\ HasError(state)
                  /\ state.parsed_jd = None
                  /\ pc = "END"
                  /\ "call_deepseek_for_jd_parsing" \notin Range(calls)
            /\ usable => "call_deepseek_for_jd_parsing" \in Range(calls)

\* ExtractJob ran for the title "qa", which is in the catalog with a
\* description of one blank: the run halted without calling the model.
C24_Witness ==
    /\ obs.jd = "raised"
    /\ state.selected_job_title = Some(<<"q", "a">>)
    /\ MatchPositions # {}
    /\ MatchedDescriptionBlank
    /\ pc = "END"
    /\ "call_deepseek_for_jd_parsing" \notin Range(calls)

\* C25 (input frame): no step of any stage changes the uploaded bytes, the
\* file name or the selected job title of the run state, so on every path
\* the final state holds them as the initial state did.
C25_InputFrame ==
    [][ /\ state'.uploaded_file_content = state.uploaded_file_content
        /\ state'.uploaded_filename = state.uploaded_filename
        /\ state'.selected_job_title = state.selected_job_title ]_vars

\* A run went through all six stages and still holds the title with its
\* trailing blank, the bytes and the file name it was started with.
C25_Witness ==
    /\ pc = "END"
    /\ trace = StageOrder
    /\ state.selected_job_title = Some(<<"D", "E", "V", " ">>)
    /\ state.uploaded_file_content = Some(<<" ", "c", "v">>)
    /\ state.uploaded_filename = Some(<<"a", ".", "T", "x", "t">>)

\* C26 (record frame): resume_record is written by the ExtractResume stage
\* only and job_record by the ExtractJob stage only; no step of Score,
\* Persist or Notify changes either, and a record that is present is never
\* written again.
C26_RecordFrame ==
    [][ /\ pc # "parse_resume" => state'.parsed_resume = state.parsed_resume
        /\ pc # "parse_jd" => state'.parsed_jd = state.parsed_jd
        /\ state.parsed_resume # None => state'.parsed_resume = state.parsed_resume
        /\ state.parsed_jd # None => state'.parsed_jd = state.parsed_jd ]_vars

\* A run went through Score, Persist (row stored) and Notify and still holds
\* both records.
C26_Witness ==
    /\ pc = "END"
    /\ trace = StageOrder
    /\ state.db_save_status
    /\ state.parsed_resume # None
    /\ state.parsed_jd # None
    /\ state.parsed_jd[1].company = Some("Globex")

\* The outcomes of the SMTP exchange that are failures: an exception of one
\* of the classes the function catches.
SmtpFailures == {"auth_error", "disconnected", "smtp_error", "error"}

\* C27 (notification collaborator): wherever Notify is about to call the
\* mail function, for every outcome the SMTP exchange could have: if the
\* address is absent or the credentials are not set, the function returns
\* false, opens no SMTP connection and sends nothing; and whenever the
\* exchange is attempted and fails, the function returns false.
C27_MailFunctionReturnsFalse ==
    (pc = "send_email" /\ ~EmailSkipped(state)) =>
        \A smtp \in SmtpOutcomes :
            LET to_email == state.parsed_resume[1].email
                r == send_application_email(env.email_creds, to_email,
                                            state.parsed_resume[1].candidate_name,
                                            state.selected_job_title[1],
                                            state.match_score[1],
                                            state.feedback[1], smtp)
            IN  /\ (~env.email_creds \/ to_email = None \/ to_email = Some("")) =>
                      /\ r.result = "false"
                      /\ ~r.smtp
                      /\ r.mail = None
                /\ (r.smtp /\ smtp \in SmtpFailures) =>
                      /\ r.result = "false"
                      /\ r.mail = None

\* Notify called the mail function without credentials for a job title
\* holding a line break: it returned false and nothing was sent.
C27_Witness ==
    /\ pc = "END"
    /\ ~env.email_creds
    /\ obs.email_args # None
    /\ obs.email_args[1].to_email # None
    /\ HasLineBreak(obs.email_args[1].job_title)
    /\ obs.email_result = "false"
    /\ outbox = <<>>

\* C28 (storage schema): every step in which Save is invoked leaves the
\* store with its schema, creating it when it was absent, so that a Save on
\* a store without schema does not fail for want of it; the rows stored stay
\* as they were; and creating the schema where it exists changes neither the
\* schema nor any stored row.
C28_SaveCreatesSchema ==
    [][(pc = "save_db" /\ calls' = Append(calls, "save_match_results")) =>
          /\ db'.table
          /\ SubSeq(db'.rows, 1, Len(db.rows)) = db.rows
          /\ db.table => setup_database(db, TRUE) = db ]_vars

\* C29 (error absent means stored and notified): in every finished run that
\* executed all six stages, if the error is absent then persisted and
\* notified are both true; a Save that returned false or raised, and a
\* notification that was skipped, returned false or raised, each leave the
\* error set.
C29_NoErrorMeansComplete ==
    (pc = "END" /\ trace = StageOrder) =>
        /\ ~HasError(state) => (state.db_save_status /\ state.email_sent_status)
        /\ obs.save_result \in {"false", "raise"} => HasError(state)
        /\ obs.email_result \in {"none", "false", "raise"} => HasError(state)

\* A finished run in which Save raised and the mail was then sent: the error
\* is still set.
C29_Witness ==
    /\ pc = "END"
    /\ trace = StageOrder
    /\ obs.save_result = "raise"
    /\ obs.email_result = "true"
    /\ state.email_sent_status
    /\ HasError(state)

\* The two fixed texts the scoring functions return as feedback on failure.
ScoringFailureTexts ==
    {Some("Error: Could not generate matching results."),
     Some("An error occurred during the matching process.")}

\* C30 (scoring never fails): every step of the Score stage that calls the
\* scoring collaborator gets a pair back, whatever the model call did: the
\* score is a number in [0,100], and when the call failed it is 0 with one
\* of the fixed error texts as feedback; the stage stores the pair, leaves
\* the error absent (its exception branch is not taken) and the run goes on
\* to Persist.
C30_ScoringNeverFails ==
    [][(pc = "match" /\ calls' = Append(calls, "calculate_match_and_feedback")) =>
          /\ state'.match_score # None
          /\ InRange(state'.match_score[1])
          /\ obs'.scoring = "failed" =>
                /\ state'.match_score = Some(0)
                /\ state'.feedback \in ScoringFailureTexts
          /\ state'.error_message = None
          /\ pc' = "save_db" ]_vars

\* The scoring call came back without a JSON object (a timeout, a transport
\* error, a reply of another shape): the Score stage stored 0 and the fixed
\* text and the run went on to Persist with no error.
C30_Witness ==
    /\ pc = "save_db"
    /\ obs.model_score = None
    /\ obs.scoring = "failed"
    /\ state.match_score = Some(0)
    /\ state.feedback = Some("Error: Could not generate matching results.")
    /\ state.error_message = None

\* C31 (a score of 0 is a score): in every finished run whose Score stage
\* stored the score 0 with non-empty feedback, Save was invoked with that
\* score and the mail function was invoked with it, and any mail sent is the
\* rejection one.
C31_ZeroScoreIsPresent ==
    (/\ pc = "END"
     /\ obs.scoring # "none"
     /\ state.match_score = Some(0)
     /\ TruthyStr(state.feedback)) =>
        /\ "save_match_results" \in Range(calls)
        /\ obs.save_args # None
        /\ obs.save_args[1].match_score = 0
        /\ "send_application_email" \in Range(calls)
        /\ obs.email_args # None
        /\ obs.email_args[1].match_score = 0
        /\ \A i \in 1..Len(outbox) : outbox[i].subject = "Update"

\* The model gave a score that came to 0 with feedback; the row was stored
\* and the rejection mail sent.
C31_Witness ==
    /\ pc = "END"
    /\ obs.scoring = "ok"
    /\ state.match_score = Some(0)
    /\ state.db_save_status
    /\ state.email_sent_status
    /\ Len(outbox) = 1
    /\ outbox[1].subject = "Update"
    /\ outbox[1].match_score = 0

\* C32 (title consistency): whenever Save has been invoked, the title it was
\* given (the job record's, which is the one stored in the row) is the
\* selected title; whenever the mail function has been invoked, the title it
\* was given is the selected title; so the stored row, the mail and the input
\* all carry the same title.
C32_TitleConsistency ==
    /\ obs.save_args # None =>
          /\ state.parsed_jd # None
          /\ obs.save_args[1].job_title = state.parsed_jd[1].job_title
          /\ obs.save_args[1].job_title = state.selected_job_title[1]
          /\ obs.save_result = "true" =>
                db.rows[Len(db.rows)].applied_job_title = state.selected_job_title[1]
    /\ obs.email_args # None =>
          /\ obs.email_args[1].job_title = state.selected_job_title[1]
          /\ obs.save_args # None
          /\ obs.email_args[1].job_title = obs.save_args[1].job_title
    /\ \A i \in 1..Len(outbox) : outbox[i].job_title = state.selected_job_title[1]

\* A finished run for the title "DEV " (trailing blank; the catalog row reads
\* " Dev"): the row stored and the mail sent both carry "DEV ".
C32_Witness ==
    /\ pc = "END"
    /\ state.selected_job_title = Some(<<"D", "E", "V", " ">>)
    /\ state.db_save_status
    /\ db.rows[Len(db.rows)].applied_job_title = <<"D", "E", "V", " ">>
    /\ Len(outbox) = 1
    /\ outbox[1].job_title = <<"D", "E", "V", " ">>

\* C33 (flags imply data): in every finished run, persisted true implies
\* that score, resume_record and job_record are present; notified true
\* implies that the score is present, the feedback is non-empty and
\* resume_record is present and holds an address.
C33_FlagsImplyData ==
    pc = "END" =>
        /\ state.db_save_status =>
              /\ state.match_score # None
              /\ state.parsed_resume # None
              /\ state.parsed_jd # None
        /\ state.email_sent_status =>
              /\ state.match_score # None
              /\ TruthyStr(state.feedback)
              /\ state.parsed_resume # None
              /\ state.parsed_resume[1].email # None
              /\ state.parsed_resume[1].email # Some("")

\* A finished run that stored its row for a resume without address: persisted
\* is true, notified is false, the mail function returned false.
C33_Witness ==
    /\ pc = "END"
    /\ state.db_save_status
    /\ ~state.email_sent_status
    /\ state.parsed_resume # None
    /\ state.parsed_resume[1].email = None
    /\ obs.email_result = "false"
    /\ env.email_creds

\* C34 (Persist's skip guard is dead through the graph): whenever a run
\* stands at Persist, the error is absent and score, resume_record and
\* job_record are present, so the guard of save_to_database does not skip;
\* and in every run in which Persist has executed, Save was invoked.
C34_PersistGuardUnreachable ==
    /\ pc = "save_db" =>
          /\ ~HasError(state)
          /\ state.match_score # None
          /\ state.parsed_resume # None
          /\ state.parsed_jd # None
          /\ ~SaveSkipped(state)
    /\ "save_db" \in Range(trace) =>
          /\ "save_match_results" \in Range(calls)
          /\ obs.save_result # "none"

\* Persist has executed after a scoring call that failed: the score 0 was
\* present and Save was invoked.
C34_Witness ==
    /\ pc = "send_email"
    /\ obs.scoring = "failed"
    /\ state.match_score = Some(0)
    /\ "save_match_results" \in Range(calls)

\* The four stages after LoadAndValidate that assign error := None on their
\* success path.
ClearingStages == {"parse_resume", "parse_jd", "match", "save_db"}

\* C35 (error := None never clears an error): a step that turns a recorded
\* error into an absent one is a step of LoadAndValidate; a step of
\* ExtractResume, ExtractJob, Score or Persist taken with an error recorded
\* leaves the error exactly as it was, and such a step ends with the error
\* absent only if it started with the error absent.
C35_OnlyLoadClearsError ==
    [][ /\ (HasError(state) /\ ~HasError(state')) => pc = "load_validate"
        /\ (pc \in ClearingStages /\ HasError(state)) =>
              state'.error_message = state.error_message
        /\ (pc \in ClearingStages /\ state'.error_message = None) =>
              state.error_message = None ]_vars

\* ExtractJob was started on a state with an error recorded: it called
\* nothing, the error is the same and the run is done.
C35_Witness ==
    /\ pc = "END"
    /\ trace = <<"parse_jd">>
    /\ state.error_message = UpstreamError
    /\ state.parsed_jd = None
    /\ calls = <<>>

====
